---- MODULE Spec2Model ----
(***************************************************************************)
(* A model of the segmented array of src/src/lib.rs: SegArray<T>, its      *)
(* consuming iterator SegArrayIntoIter<T>, and the raw heap blocks they    *)
(* manage by hand.  Segment i is one heap block of 2^i slots.  A slot      *)
(* holds either a constructed element (a value of Values) or nothing       *)
(* (Uninit: never written, moved out, or destroyed).                       *)
(***************************************************************************)
EXTENDS Integers, Sequences, FiniteSets, TLC

\* Size of the segment table ([*mut T; 32] in the source), scaled down.
MaxSegs == 3
\* At most this many successful appends in one run.
MaxOps == 8
MaxIdx == 126
\* The element values; two are enough to tell elements apart.
Values == {1, 2}

Uninit == 0
NULL == 0
None == 0
Blocks == 1..MaxSegs
MaxBlockLen == 2^(MaxSegs - 1)
SegIdx == 0..(MaxSegs - 1)

VARIABLES
    arr,        \* the SegArray: count, allocated_segments, segments, segment_usage
    arr_state,  \* "live", "moved" (consumed by into_iter), "dropped", "aborted", "crashed"
    it,         \* the SegArrayIntoIter: idx and the fields taken from the array
    it_state,   \* "none", "live", "dropped", "crashed"
    cl,         \* a second SegArray made by the derived Clone
    cl_state,   \* "none", "live", "dropped", "crashed"
    heap,       \* block -> [size, allocated, cells]
    frees,      \* block -> number of dealloc calls made on it
    drops,      \* block -> slot -> number of drop_in_place calls made on it
    ub,         \* the kinds of undefined behaviour executed so far
    last,       \* the last operation called and what it returned
    shadow,     \* the elements the container logically holds, in insertion order
    yielded,    \* the items the iterator has returned, in order
    nApp,       \* number of successful appends
    nPop        \* number of successful pops

vars == <<arr, arr_state, it, it_state, cl, cl_state, heap, frees, drops, ub,
          last, shadow, yielded, nApp, nPop>>

----------------------------------------------------------------------------
\* Pure helpers.

RECURSIVE ilog2(_)
ilog2(x) ==
    IF x <= 1 THEN 0 ELSE 1 + ilog2(x \div 2)

\* ilog2_ceil without the rounding up.
ilog2_ceil_floor(x) ==
    ilog2(x)

ilog2_ceil(x) ==
    LET l2 == ilog2(x)
    IN  IF 2^l2 = x THEN l2 ELSE l2 + 1

\* segment_index that rounds the logarithm up instead of down.
segment_index_ceil(index) ==
    ilog2_ceil(index + 1)

segment_index(index) ==
    ilog2(index + 1)

\* segment_slot without the + 1 of the one-based position.
segment_slot_nooffset(index, seg) ==
    index - 2^seg

segment_slot(index, seg) ==
    index + 1 - 2^seg

\* segment_count_for_capacity without the + 1: the segments that hold
\* capacity - 1 elements.
segment_count_for_capacity_exact(capacity) ==
    ilog2_ceil(capacity)

segment_count_for_capacity(capacity) ==
    ilog2_ceil(capacity + 1)

\* len answering with the allocated capacity instead of the element count.
len_capacity(a) ==
    2^a.allocated_segments - 1

len(a) ==
    a.count

is_empty(a) ==
    a.count = 0

Min(a, b) == IF a <= b THEN a ELSE b

----------------------------------------------------------------------------
\* The heap.

NoBlock ==
    [size |-> 0, allocated |-> FALSE, cells |-> <<>>]

\* A fresh block of len uninitialized slots; the allocator's choice of address
\* is the least block never handed out.
FreshBlock(hp) ==
    CHOOSE b \in Blocks : hp[b].size = 0 /\ \A c \in Blocks : hp[c].size = 0 => b <= c

alloc_seg(hp, n) ==
    [hp EXCEPT ![FreshBlock(hp)] =
        [size |-> n, allocated |-> TRUE, cells |-> [s \in 1..n |-> Uninit]]]

\* SlotOf with the .add(seg_slot) left out: every index of a segment addresses
\* the segment's first slot.
SlotOfBase(a, index) ==
    <<a.segments[segment_index(index)], 0>>

\* self.segments[seg_idx].add(seg_slot): the slot a handle addresses for a
\* linear index, as <<block, slot>>.
SlotOf(a, index) ==
    LET seg_idx == segment_index(index)
        seg_slot == segment_slot(index, seg_idx)
    IN  <<a.segments[seg_idx], seg_slot>>

InBounds(hp, p) ==
    p[1] \in Blocks /\ p[2] >= 0 /\ p[2] < hp[p[1]].size

\* What is undefined in dereferencing p: a null or out-of-block pointer, a
\* pointer into a freed block.
AccessUB(hp, p) ==
    IF ~InBounds(hp, p) THEN {"out_of_bounds"}
    ELSE IF ~hp[p[1]].allocated THEN {"use_after_free"}
    ELSE {}

\* A read through p; outside every block it finds no element.
Load(hp, p) ==
    IF InBounds(hp, p) THEN hp[p[1]].cells[p[2] + 1] ELSE Uninit

\* A write through p; outside every block it lands in no slot of the model.
Store(hp, p, v) ==
    IF InBounds(hp, p) THEN [hp EXCEPT ![p[1]].cells[p[2] + 1] = v] ELSE hp

\* What indices 0..count-1 read through the handle.
Contents(a, hp) ==
    [i \in 1..a.count |-> Load(hp, SlotOf(a, i - 1))]

\* Every block the handle points to is still allocated.
MemOK(a) ==
    \A i \in SegIdx : i < a.allocated_segments => heap[a.segments[i]].allocated

----------------------------------------------------------------------------
\* SegArray::new

NewArr ==
    [count |-> 0,
     allocated_segments |-> 0,
     segments |-> [i \in SegIdx |-> NULL],
     segment_usage |-> [i \in SegIdx |-> 0]]

NoIter ==
    [idx |-> 0,
     count |-> 0,
     allocated_segments |-> 0,
     segments |-> [i \in SegIdx |-> NULL],
     segment_usage |-> [i \in SegIdx |-> 0]]

NoCall ==
    [op |-> "new", idx |-> -1, val |-> 0, ret |-> None, err |-> "",
     mem |-> <<>>, pre |-> <<>>]

Call(op, idx, val, ret, err, mem, pre) ==
    [op |-> op, idx |-> idx, val |-> val, ret |-> ret, err |-> err,
     mem |-> mem, pre |-> pre]

Init ==
    /\ arr = NewArr
    /\ arr_state = "live"
    /\ it = NoIter
    /\ it_state = "none"
    /\ cl = NewArr
    /\ cl_state = "none"
    /\ heap = [b \in Blocks |-> NoBlock]
    /\ frees = [b \in Blocks |-> 0]
    /\ drops = [b \in Blocks |-> [s \in 1..MaxBlockLen |-> 0]]
    /\ ub = {}
    /\ last = NoCall
    /\ shadow = <<>>
    /\ yielded = <<>>
    /\ nApp = 0
    /\ nPop = 0

----------------------------------------------------------------------------
\* SegArray::grow.  GrowLoop is its for loop over the missing segments; a
\* segment number outside the table panics (debug_assert / bounds check), a
\* null pointer from the allocator aborts the process (handle_alloc_error).

RECURSIVE GrowLoop(_, _, _, _, _)
GrowLoop(a, hp, i, n, alloc_ok) ==
    IF i >= n THEN [status |-> "ok", arr |-> a, heap |-> hp]
    ELSE IF i >= MaxSegs THEN [status |-> "panic", arr |-> a, heap |-> hp]
    ELSE IF ~alloc_ok THEN [status |-> "abort", arr |-> a, heap |-> hp]
    ELSE GrowLoop([a EXCEPT !.segments[i] = FreshBlock(hp),
                            !.segment_usage[i] = 0],
                  alloc_seg(hp, 2^i), i + 1, n, alloc_ok)

\* grow that records the new segment count before its loop has run.
grow_record_first(a, hp, new_count, alloc_ok) ==
    LET new_segment_count == segment_count_for_capacity(new_count)
        old_segment_count == a.allocated_segments
    IN  IF new_segment_count <= old_segment_count
        THEN [status |-> "ok", arr |-> a, heap |-> hp]
        ELSE GrowLoop([a EXCEPT !.allocated_segments = new_segment_count],
                      hp, old_segment_count, new_segment_count, alloc_ok)

\* grow that allocates every segment afresh, from segment 0, as a buffer that
\* is reallocated on growth would.
grow_from_zero(a, hp, new_count, alloc_ok) ==
    LET new_segment_count == segment_count_for_capacity(new_count)
        old_segment_count == a.allocated_segments
        r == GrowLoop(a, hp, 0, new_segment_count, alloc_ok)
    IN  IF new_segment_count <= old_segment_count
        THEN [status |-> "ok", arr |-> a, heap |-> hp]
        ELSE IF r.status = "ok"
             THEN [r EXCEPT !.arr.allocated_segments = new_segment_count]
             ELSE r

grow(a, hp, new_count, alloc_ok) ==
    LET new_segment_count == segment_count_for_capacity(new_count)
        old_segment_count == a.allocated_segments
        r == GrowLoop(a, hp, old_segment_count, new_segment_count, alloc_ok)
    IN  IF new_segment_count <= old_segment_count
        THEN [status |-> "ok", arr |-> a, heap |-> hp]
        ELSE IF r.status = "ok"
             THEN [r EXCEPT !.arr.allocated_segments = new_segment_count]
             ELSE r

\* append_fields with the store of the new count left out.
append_fields_stale_count(a, seg_idx, new_count) ==
    [a EXCEPT !.segment_usage[seg_idx] = @ + 1]

\* The fields after a successful append into segment seg_idx.
append_fields(a, seg_idx, new_count) ==
    [a EXCEPT !.segment_usage[seg_idx] = @ + 1, !.count = new_count]

\* SegArray::append
append(value) ==
    /\ arr_state = "live"
    /\ MemOK(arr)
    /\ nApp < MaxOps
    /\ \E alloc_ok \in BOOLEAN :
         LET new_count == arr.count + 1
             g == grow(arr, heap, new_count, alloc_ok)
             seg_idx == segment_index(arr.count)
             write_slot == SlotOf(g.arr, arr.count)
         IN  CASE g.status = "ok" ->
                   /\ heap' = Store(g.heap, write_slot, value)
                   /\ arr' = append_fields(g.arr, seg_idx, new_count)
                   /\ last' = Call("append", -1, value, None, "", write_slot,
                                   Contents(arr, heap))
                   /\ shadow' = Append(shadow, value)
                   /\ nApp' = nApp + 1
                   /\ ub' = ub \cup AccessUB(g.heap, write_slot)
                   /\ UNCHANGED arr_state
              [] g.status = "panic" ->
                   /\ heap' = g.heap
                   /\ arr' = g.arr
                   /\ last' = Call("append", -1, value, None, "TableFull", <<>>,
                                   Contents(arr, heap))
                   /\ UNCHANGED <<shadow, nApp, arr_state, ub>>
              [] g.status = "abort" ->
                   /\ arr_state' = "aborted"
                   /\ last' = Call("append", -1, value, None, "AllocFailed", <<>>,
                                   Contents(arr, heap))
                   /\ UNCHANGED <<heap, arr, shadow, nApp, ub>>
    /\ UNCHANGED <<it, it_state, cl, cl_state, frees, drops, yielded, nPop>>

\* pop_fields with the store of the new count left out.
pop_fields_keep_count(a, seg_idx, idx) ==
    [a EXCEPT !.segment_usage[seg_idx] = @ - 1]

\* pop_fields with the decrement of the segment's usage left out.
pop_fields_keep_usage(a, seg_idx, idx) ==
    [a EXCEPT !.count = idx]

\* pop_fields that gives up a segment once its last element is popped.
pop_fields_shrink(a, seg_idx, idx) ==
    [a EXCEPT !.segment_usage[seg_idx] = @ - 1,
              !.count = idx,
              !.allocated_segments =
                  IF a.segment_usage[seg_idx] = 1 THEN seg_idx ELSE @]

\* The fields after a successful pop of index idx from segment seg_idx.
pop_fields(a, seg_idx, idx) ==
    [a EXCEPT !.segment_usage[seg_idx] = @ - 1, !.count = idx]

\* pop on a non-empty array: read the last slot, leave it moved-out.
pop_last(a, hp) ==
    LET idx == a.count - 1
        seg_idx == segment_index(idx)
        p == SlotOf(a, idx)
        res == Load(hp, p)
    IN  [ret |-> res, mem |-> p,
         arr |-> pop_fields(a, seg_idx, idx),
         heap |-> Store(hp, p, Uninit),
         ub |-> AccessUB(hp, p)
                \cup (IF res = Uninit THEN {"read_uninit"} ELSE {})]

\* pop_result that forgets its segments once the array is found empty.
pop_result_reset(a, hp) ==
    IF a.count = 0
    THEN [ret |-> None, mem |-> <<>>,
          arr |-> [a EXCEPT !.allocated_segments = 0], heap |-> hp, ub |-> {}]
    ELSE pop_last(a, hp)

\* SegArray::pop on handle a: what it returns, the slot it read, and the fields
\* and heap it leaves.
pop_result(a, hp) ==
    IF a.count = 0
    THEN [ret |-> None, mem |-> <<>>, arr |-> a, heap |-> hp, ub |-> {}]
    ELSE pop_last(a, hp)

\* SegArray::pop
pop ==
    /\ arr_state = "live"
    /\ MemOK(arr)
    /\ LET r == pop_result(arr, heap)
       IN  /\ arr' = r.arr
           /\ heap' = r.heap
           /\ ub' = ub \cup r.ub
           /\ last' = Call("pop", -1, 0, r.ret, "", r.mem, <<>>)
           /\ shadow' = IF arr.count = 0 THEN shadow
                        ELSE SubSeq(shadow, 1, Len(shadow) - 1)
           /\ nPop' = IF arr.count = 0 THEN nPop ELSE nPop + 1
    /\ UNCHANGED <<arr_state, it, it_state, cl, cl_state, frees, drops,
                   yielded, nApp>>

\* The bounds check written with > in place of >=.
OutOfRangeOffByOne(a, ix) ==
    ix > a.count

\* The bounds check of index and index_mut.
OutOfRange(a, ix) ==
    ix >= a.count

\* Index::index
index(ix) ==
    /\ arr_state = "live"
    /\ MemOK(arr)
    /\ IF OutOfRange(arr, ix)
       THEN /\ last' = Call("index", ix, 0, None, "OutOfRange", <<>>, <<>>)
            /\ UNCHANGED ub
       ELSE LET p == SlotOf(arr, ix)
            IN  /\ last' = Call("index", ix, 0, Load(heap, p), "", p, <<>>)
                /\ ub' = ub \cup AccessUB(heap, p)
    /\ UNCHANGED <<arr, arr_state, it, it_state, cl, cl_state, heap, frees,
                   drops, shadow, yielded, nApp, nPop>>

\* IndexMut::index_mut, used as arr[index] = value
index_mut(ix, value) ==
    /\ arr_state = "live"
    /\ MemOK(arr)
    /\ IF OutOfRange(arr, ix)
       THEN /\ last' = Call("index_mut", ix, value, None, "OutOfRange",
                            <<>>, <<>>)
            /\ UNCHANGED <<heap, shadow, ub>>
       ELSE LET p == SlotOf(arr, ix)
            IN  /\ heap' = Store(heap, p, value)
                /\ last' = Call("index_mut", ix, value, None, "", p, <<>>)
                /\ shadow' = [shadow EXCEPT ![ix + 1] = value]
                /\ ub' = ub \cup AccessUB(heap, p)
    /\ UNCHANGED <<arr, arr_state, it, it_state, cl, cl_state, frees, drops,
                   yielded, nApp, nPop>>

----------------------------------------------------------------------------
\* Consuming iteration.

\* IntoIterator::into_iter: the array is wrapped in ManuallyDrop (its Drop
\* never runs) and its fields are copied into the iterator.
into_iter ==
    /\ arr_state = "live"
    /\ it_state = "none"
    /\ it' = [idx |-> 0,
              count |-> arr.count,
              allocated_segments |-> arr.allocated_segments,
              segments |-> arr.segments,
              segment_usage |-> arr.segment_usage]
    /\ it_state' = "live"
    /\ arr_state' = "moved"
    /\ last' = Call("into_iter", -1, 0, None, "", <<>>, <<>>)
    /\ UNCHANGED <<arr, cl, cl_state, heap, frees, drops, ub, shadow, yielded,
                   nApp, nPop>>

\* The end test one element early.
IterDoneEarly(t) ==
    t.idx + 1 >= t.count

\* The end test of next.
IterDone(t) ==
    t.idx = t.count

\* Iterator::next
next ==
    /\ it_state = "live"
    /\ MemOK(it)
    /\ IF IterDone(it)
       THEN /\ last' = Call("next", -1, 0, None, "", <<>>, <<>>)
            /\ UNCHANGED <<it, heap, yielded, ub>>
       ELSE LET p == SlotOf(it, it.idx)
                item == Load(heap, p)
            IN  /\ heap' = Store(heap, p, Uninit)
                /\ it' = [it EXCEPT !.idx = @ + 1]
                /\ yielded' = Append(yielded, item)
                /\ last' = Call("next", -1, 0, item, "", p, <<>>)
                /\ ub' = ub \cup AccessUB(heap, p)
                         \cup (IF item = Uninit THEN {"read_uninit"} ELSE {})
    /\ UNCHANGED <<arr, arr_state, it_state, cl, cl_state, frees, drops,
                   shadow, nApp, nPop>>

----------------------------------------------------------------------------
\* Teardown: drop_in_place on slots, dealloc on blocks.

\* The slots of slice_from_raw_parts_mut(block + start, n).
SlotsOf(b, start, n) ==
    {<<b, s>> : s \in start..(start + n - 1)}

\* ptr::drop_in_place on every slot of S: a constructed element is destroyed
\* and its slot holds nothing afterwards.
drop_in_place(hp, S) ==
    [b \in Blocks |->
        [hp[b] EXCEPT !.cells =
            [s \in 1..hp[b].size |->
                IF <<b, s - 1>> \in S THEN Uninit ELSE hp[b].cells[s]]]]

\* What is undefined in drop_in_place on S: a slot outside its block, a slot of
\* a freed block, a slot holding no constructed element.
DropUB(hp, S) ==
    (IF \E p \in S : ~InBounds(hp, p) THEN {"out_of_bounds"} ELSE {})
    \cup (IF \E p \in S : InBounds(hp, p) /\ ~hp[p[1]].allocated
          THEN {"use_after_free"} ELSE {})
    \cup (IF \E p \in S : InBounds(hp, p) /\ Load(hp, p) = Uninit
          THEN {"drop_uninit"} ELSE {})

\* alloc::dealloc on every block of B.
dealloc(hp, B) ==
    [b \in Blocks |-> IF b \in B THEN [hp[b] EXCEPT !.allocated = FALSE] ELSE hp[b]]

FreeUB(hp, B) ==
    IF \E b \in B : b \notin Blocks \/ ~hp[b].allocated
    THEN {"double_free"} ELSE {}

\* The slots the first loop of SegArray's Drop destroys.
ArrDropSlots(a) ==
    IF a.allocated_segments = 0 THEN {}
    ELSE LET currently_filled_segments == segment_count_for_capacity(a.count)
         IN  UNION {SlotsOf(a.segments[i], 0, a.segment_usage[i] - 1) :
                       i \in 0..(currently_filled_segments - 1)}

\* segment_usage[i] - 1 underflows when a filled segment has usage 0.
ArrDropUB(a) ==
    IF a.allocated_segments # 0
       /\ \E i \in 0..(segment_count_for_capacity(a.count) - 1) :
             a.segment_usage[i] = 0
    THEN {"underflow"} ELSE {}

\* The dealloc loop running over the filled segments only.
FreedBlocksFilled(a) ==
    {a.segments[i] : i \in 0..(segment_count_for_capacity(a.count) - 1)}

\* The blocks the dealloc loop of either Drop frees.
FreedBlocks(a) ==
    {a.segments[i] : i \in 0..(a.allocated_segments - 1)}

\* The for loop of SegArrayIntoIter's Drop from segment i on.
RECURSIVE IterDropLoop(_, _, _, _)
IterDropLoop(t, i, currently_filled_segments, already_dropped) ==
    IF i >= currently_filled_segments THEN {}
    ELSE LET drop_slice_start_slot == segment_slot(already_dropped, i)
             drop_slice_len == Min(2^i - drop_slice_start_slot, t.segment_usage[i])
         IN  SlotsOf(t.segments[i], drop_slice_start_slot, drop_slice_len)
             \cup IterDropLoop(t, i + 1, currently_filled_segments,
                               already_dropped + drop_slice_len)

\* The slots SegArrayIntoIter's Drop destroys.
IterDropSlots(t) ==
    LET first_seg_including_drop == segment_count_for_capacity(t.idx + 1) - 1
        currently_filled_segments == segment_count_for_capacity(t.count)
    IN  IterDropLoop(t, first_seg_including_drop, currently_filled_segments, t.idx)

\* Both Drop impls: destroy the slots of S, then free the blocks of B.
Teardown(S, B, extra) ==
    /\ heap' = dealloc(drop_in_place(heap, S), B)
    /\ drops' = [b \in Blocks |-> [s \in 1..MaxBlockLen |->
                    drops[b][s] + (IF <<b, s - 1>> \in S THEN 1 ELSE 0)]]
    /\ frees' = [b \in Blocks |-> frees[b] + (IF b \in B THEN 1 ELSE 0)]
    /\ ub' = ub \cup DropUB(heap, S) \cup FreeUB(drop_in_place(heap, S), B) \cup extra

\* A teardown that executed undefined behaviour may also have crashed.
Outcomes(u) ==
    IF u = {} THEN {"dropped"} ELSE {"dropped", "crashed"}

\* impl Drop for SegArray
drop_arr ==
    /\ arr_state = "live"
    /\ Teardown(ArrDropSlots(arr), FreedBlocks(arr), ArrDropUB(arr))
    /\ arr_state' \in Outcomes(ub')
    /\ last' = Call("drop", -1, 0, None, "", <<>>, <<>>)
    /\ UNCHANGED <<arr, it, it_state, cl, cl_state, shadow, yielded, nApp, nPop>>

\* impl Drop for SegArrayIntoIter
drop_iter ==
    /\ it_state = "live"
    /\ Teardown(IterDropSlots(it), FreedBlocks(it), {})
    /\ it_state' \in Outcomes(ub')
    /\ last' = Call("drop_iter", -1, 0, None, "", <<>>, <<>>)
    /\ UNCHANGED <<arr, arr_state, it, cl, cl_state, shadow, yielded, nApp, nPop>>

----------------------------------------------------------------------------
\* #[derive(Clone)]: a field-by-field copy, the segment pointers included.

clone ==
    /\ arr_state = "live"
    /\ cl_state = "none"
    /\ cl' = arr
    /\ cl_state' = "live"
    /\ last' = Call("clone", -1, 0, None, "", <<>>, <<>>)
    /\ UNCHANGED <<arr, arr_state, it, it_state, heap, frees, drops, ub, shadow,
                   yielded, nApp, nPop>>

\* impl Drop for SegArray, run on the clone.
drop_clone ==
    /\ cl_state = "live"
    /\ Teardown(ArrDropSlots(cl), FreedBlocks(cl), ArrDropUB(cl))
    /\ cl_state' \in Outcomes(ub')
    /\ last' = Call("drop_clone", -1, 0, None, "", <<>>, <<>>)
    /\ UNCHANGED <<arr, arr_state, it, it_state, cl, shadow, yielded, nApp, nPop>>

\* Index::index(0) through a pointer whose block the other owner has freed:
\* the read may crash or return whatever the freed memory holds.
use_after_free ==
    /\ arr_state = "live"
    /\ ~MemOK(arr)
    /\ arr.count > 0
    /\ ub' = ub \cup {"use_after_free"}
    /\ \/ /\ arr_state' = "crashed"
          /\ last' = Call("index", 0, 0, None, "", SlotOf(arr, 0), <<>>)
       \/ /\ \E v \in Values \cup {Uninit} :
               last' = Call("index", 0, 0, v, "", SlotOf(arr, 0), <<>>)
          /\ UNCHANGED arr_state
    /\ UNCHANGED <<arr, it, it_state, cl, cl_state, heap, frees, drops, shadow,
                   yielded, nApp, nPop>>

----------------------------------------------------------------------------
\* The specifications.

\* The operations that construct, move, destroy, allocate or free.
Lifecycle ==
    \/ \E value \in Values : append(value)
    \/ pop
    \/ into_iter
    \/ next
    \/ drop_arr
    \/ drop_iter

\* One SegArray from new() to its teardown, directly or through into_iter.
Next ==
    \/ Lifecycle
    \/ \E ix \in 0..(arr.count + 1) : index(ix)
    \/ \E ix \in 0..(arr.count + 1) : \E value \in Values : index_mut(ix, value)

Spec == Init /\ [][Next]_vars

\* The same container with the derived Clone in play.
NextClone ==
    \/ Lifecycle
    \/ clone
    \/ drop_clone
    \/ use_after_free

SpecClone == Init /\ [][NextClone]_vars

\* The addressing helpers on their own: segment_index and segment_slot
\* applied to one linear index after another.

Locate(idx) ==
    LET seg_idx == segment_index(idx)
        seg_slot == segment_slot(idx, seg_idx)
    IN  Call("locate", idx, 0, None, "", <<seg_idx, seg_slot>>, <<>>)

InitAddr ==
    /\ arr = NewArr
    /\ arr_state = "live"
    /\ it = NoIter
    /\ it_state = "none"
    /\ cl = NewArr
    /\ cl_state = "none"
    /\ heap = [b \in Blocks |-> NoBlock]
    /\ frees = [b \in Blocks |-> 0]
    /\ drops = [b \in Blocks |-> [s \in 1..MaxBlockLen |-> 0]]
    /\ ub = {}
    /\ shadow = <<>>
    /\ yielded = <<>>
    /\ nApp = 0
    /\ nPop = 0
    /\ \E idx \in 0..MaxIdx :
          last = Call("input", idx, 0, None, "", <<>>, <<>>)

locate ==
    /\ last.op = "input"
    /\ last' = Locate(last.idx)
    /\ UNCHANGED <<arr, arr_state, it, it_state, cl, cl_state, heap, frees,
                   drops, ub, shadow, yielded, nApp, nPop>>

locate_next ==
    /\ last.op = "locate"
    /\ last.idx < MaxIdx
    /\ last' = Locate(last.idx + 1)
    /\ UNCHANGED <<arr, arr_state, it, it_state, cl, cl_state, heap, frees,
                   drops, ub, shadow, yielded, nApp, nPop>>

NextAddr ==
    \/ locate
    \/ locate_next

SpecAddr == InitAddr /\ [][NextAddr]_vars

----------------------------------------------------------------------------
\* Measures used by the properties below.

\* How many times a teardown has destroyed the slot p.
DropsAt(p) ==
    IF p[1] \in Blocks /\ p[2] + 1 \in 1..MaxBlockLen THEN drops[p[1]][p[2] + 1] ELSE 0

RECURSIVE SumSeq(_)
SumSeq(q) ==
    IF q = <<>> THEN 0 ELSE q[1] + SumSeq(Tail(q))

RECURSIVE SumBlocks(_)
SumBlocks(B) ==
    IF B = {} THEN 0
    ELSE LET b == CHOOSE x \in B : TRUE
         IN  SumSeq(drops[b]) + SumBlocks(B \ {b})

\* Every drop_in_place call made so far, over all slots.
TotalDrops ==
    SumBlocks(Blocks)

\* The slots the handle's indices 0..count-1 address.
LiveSlots(a) ==
    {SlotOf(a, i) : i \in 0..(a.count - 1)}

\* The live handles whose segment table points to block b.
Owners(b) ==
    {h \in {"arr", "it", "cl"} :
        \/ h = "arr" /\ arr_state = "live" /\ b \in FreedBlocks(arr)
        \/ h = "it" /\ it_state = "live" /\ b \in FreedBlocks(it)
        \/ h = "cl" /\ cl_state = "live" /\ b \in FreedBlocks(cl)}

----------------------------------------------------------------------------
\* The properties.

\* C1: while the array is live, index i < count reads the i-th element of the
\* insertion-ordered contents, through the raw slots and through index(); and
\* an append leaves every earlier index reading what it read before and makes
\* the new last index read the appended value.
C1_AppendThenRead ==
    /\ arr_state = "live" =>
          /\ arr.count = Len(shadow)
          /\ \A i \in 0..(arr.count - 1) : Load(heap, SlotOf(arr, i)) = shadow[i + 1]
    /\ (arr_state = "live" /\ last.op = "index" /\ last.err = "") =>
          last.ret = shadow[last.idx + 1]
    /\ (arr_state = "live" /\ last.op = "append" /\ last.err = "") =>
          Contents(arr, heap) = last.pre \o <<last.val>>

\* C1 witness: five appends without a pop span three segments, and index 3
\* (segment 2, slot 0) was just read.
C1_Witness ==
    /\ arr_state = "live"
    /\ nApp = 5 /\ nPop = 0
    /\ shadow = <<1, 2, 2, 1, 2>>
    /\ arr.allocated_segments = 3
    /\ last.op = "index" /\ last.idx = 3 /\ last.ret = 1

\* C2: after the array's own Drop, every element that was at an index in
\* [0, count) has been destroyed exactly once.
C2_DropDestroysEachOnce ==
    arr_state \in {"dropped", "crashed"} =>
        \A i \in 0..(arr.count - 1) : DropsAt(SlotOf(arr, i)) = 1

\* C3: the iterator's Drop destroys no slot whose linear index is >= count.
C3_IterDropWithinCount ==
    it_state \in {"dropped", "crashed"} =>
        \A b \in Blocks : \A s \in 0..(MaxBlockLen - 1) :
            DropsAt(<<b, s>>) > 0 => <<b, s>> \in LiveSlots(it)

\* C4: the iterator's Drop destroys every element at [idx, count) exactly once
\* and none at [0, idx), so yielded plus destroyed is the number of elements.
C4_IterDropExactlyRest ==
    it_state \in {"dropped", "crashed"} =>
        /\ \A i \in it.idx..(it.count - 1) : DropsAt(SlotOf(it, i)) = 1
        /\ \A i \in 0..(it.idx - 1) : DropsAt(SlotOf(it, i)) = 0
        /\ Len(yielded) + TotalDrops = it.count

\* C5: every block has at most one live owner and is freed at most once.
C5_ExclusiveOwnership ==
    \A b \in Blocks : Cardinality(Owners(b)) <= 1 /\ frees[b] <= 1

\* C6: the iterator yields the elements of indices 0, 1, ..., count-1 in that
\* order, each once; its cursor never passes count; it reports the end only
\* when all count elements have been yielded, and a next() at the end returns
\* None and changes nothing.
C6_IterationInOrder ==
    /\ [](it_state = "live" =>
            /\ it.idx <= it.count
            /\ it.count = Len(shadow)
            /\ yielded = SubSeq(shadow, 1, it.idx)
            /\ (last.op = "next" /\ last.ret = None) => Len(yielded) = it.count)
    /\ [][(next /\ it.idx = it.count) =>
            /\ last'.ret = None
            /\ UNCHANGED <<it, heap, yielded, it_state>>]_vars

\* C6 witness: five elements over three segments were yielded in order and a
\* further next() has reported the end.
C6_Witness ==
    /\ it_state = "live"
    /\ it.count = 5 /\ it.idx = 5
    /\ yielded = <<1, 2, 2, 1, 2>>
    /\ last.op = "next" /\ last.ret = None

\* C7: a pop of a non-empty array returns the element at index count-1 (the
\* last of the insertion-ordered contents), decrements count and leaves the
\* lower indices as they were; right after append(v) it returns v and restores
\* the length and elements the array had before that append.
C7_PopReturnsLast ==
    [][(pop /\ arr.count > 0) =>
          /\ last'.ret = Load(heap, SlotOf(arr, arr.count - 1))
          /\ last'.ret = shadow[Len(shadow)]
          /\ arr'.count = arr.count - 1
          /\ \A j \in 0..(arr.count - 2) :
                Load(heap', SlotOf(arr', j)) = Load(heap, SlotOf(arr, j))
          /\ (last.op = "append" /\ last.err = "") =>
                /\ last'.ret = last.val
                /\ Contents(arr', heap') = last.pre]_vars

\* C7 witness: a pop right after append(2) on <<1, 1, 2>> returned 2 and left
\* <<1, 1, 2>>.
C7_Witness ==
    /\ arr_state = "live"
    /\ last.op = "pop" /\ last.ret = 2
    /\ nApp = 4 /\ nPop = 1
    /\ Contents(arr, heap) = <<1, 1, 2>>

\* C8: a pop of an empty array returns None and leaves count,
\* allocated_segments, segments, segment_usage and the heap unchanged.
C8_PopEmpty ==
    [][(pop /\ arr.count = 0) =>
          /\ last'.op = "pop"
          /\ last'.ret = None
          /\ UNCHANGED <<arr, heap, arr_state, frees>>]_vars

\* C8 witness: an array emptied by popping, its two segments still allocated,
\* was popped once more.
C8_Witness ==
    /\ arr_state = "live"
    /\ arr.count = 0 /\ arr.allocated_segments = 2
    /\ nApp = 3 /\ nPop = 3
    /\ last.op = "pop" /\ last.ret = None

\* C9: an indexed read or write reports OutOfRange exactly when index >= len;
\* when it does, it has dereferenced no slot and changed nothing.
C9_OutOfRange ==
    [][LET ix == last'.idx
       IN  (index(ix) \/ index_mut(ix, last'.val)) =>
              /\ (ix >= len(arr)) <=> (last'.err = "OutOfRange")
              /\ (ix >= len(arr)) =>
                    /\ last'.mem = <<>>
                    /\ UNCHANGED <<arr, heap, shadow, arr_state>>
              /\ (ix < len(arr)) => last'.mem = SlotOf(arr, ix)]_vars

\* C9 witness: index 3 of an array of length 3, whose slot lies in an allocated
\* segment, was refused.
C9_Witness ==
    /\ arr_state = "live"
    /\ arr.count = 3 /\ arr.allocated_segments = 3
    /\ last.op = "index" /\ last.idx = 3 /\ last.err = "OutOfRange"

\* C10: len() is the number of appends minus the number of successful pops,
\* and is_empty() holds exactly when len() is 0.
C10_LenIsAppendsMinusPops ==
    arr_state = "live" =>
        /\ len(arr) = nApp - nPop
        /\ is_empty(arr) <=> (len(arr) = 0)

\* C10 witness: six appends and three pops, interleaved, leave length 3.
C10_Witness ==
    /\ arr_state = "live"
    /\ nApp = 6 /\ nPop = 3
    /\ len(arr) = 3
    /\ last.op = "append"

\* The least k with 2^k >= x, for x >= 1.
RECURSIVE CeilLog2From(_, _)
CeilLog2From(x, k) ==
    IF 2^k >= x THEN k ELSE CeilLog2From(x, k + 1)

CeilLog2(x) ==
    CeilLog2From(x, 0)

\* The blocks currently allocated.
AllocatedBlocks ==
    {b \in Blocks : heap[b].allocated}

\* C11: after n appends and no pop, allocated_segments is ceil(log2(n+1)), and
\* that many blocks are allocated; a successful append allocates at most one
\* segment, and allocates one exactly when count is the capacity
\* 2^allocated_segments - 1 of the segments already there.
C11_SegmentsAfterAppends ==
    /\ []((arr_state = "live" /\ nPop = 0) =>
            /\ arr.allocated_segments = CeilLog2(nApp + 1)
            /\ Cardinality(AllocatedBlocks) = CeilLog2(nApp + 1))
    /\ [][(nApp' = nApp + 1) =>
            /\ arr'.allocated_segments - arr.allocated_segments \in {0, 1}
            /\ Cardinality(AllocatedBlocks') - Cardinality(AllocatedBlocks)
                  = arr'.allocated_segments - arr.allocated_segments
            /\ (arr'.allocated_segments = arr.allocated_segments + 1)
                  <=> (arr.count = 2^arr.allocated_segments - 1)]_vars

\* C11 witness: the fourth append in a row found the two segments full
\* (count 3) and allocated the third.
C11_Witness ==
    /\ arr_state = "live"
    /\ nApp = 4 /\ nPop = 0
    /\ last.op = "append" /\ last.err = ""
    /\ arr.allocated_segments = 3
    /\ Cardinality(AllocatedBlocks) = 3

\* C12: while the array stays live, every index that is live before and after
\* a step keeps its block and slot, and keeps its value unless the step is an
\* indexed write to that very index.
C12_ElementsNeverMove ==
    [][(arr_state = "live" /\ arr_state' = "live") =>
          \/ UNCHANGED <<arr, heap>>
          \/ \A i \in 0..(Min(arr.count, arr'.count) - 1) :
                LET p == SlotOf(arr, i)
                    q == SlotOf(arr', i)
                IN  /\ q = p
                    /\ (~(last'.op = "index_mut" /\ last'.err = ""
                                                /\ last'.idx = i)) =>
                          Load(heap', q) = Load(heap, p)]_vars

\* C12 witness: the append that allocated the third segment has just run and
\* the three elements written before it are where and what they were.
C12_Witness ==
    /\ arr_state = "live"
    /\ last.op = "append" /\ last.err = ""
    /\ arr.count = 4 /\ nPop = 0
    /\ last.mem = <<arr.segments[2], 0>>
    /\ last.pre = <<2, 1, 2>>
    /\ SubSeq(Contents(arr, heap), 1, 3) = last.pre

\* The blocks that have ever been allocated.
EverAllocated ==
    {b \in Blocks : heap[b].size > 0}

\* C13: no block is freed before teardown (into_iter included: it frees
\* nothing and destroys nothing); after the array's Drop, or the Drop of the
\* iterator made from it, every block ever allocated, those of segments
\* emptied by pops included, has been freed exactly once.
C13_FreedOnceAtTeardown ==
    /\ (arr_state \in {"live", "aborted"}
        \/ (arr_state = "moved" /\ it_state = "live")) =>
          /\ \A b \in Blocks : frees[b] = 0
          /\ \A b \in EverAllocated : heap[b].allocated
          /\ TotalDrops = 0
    /\ arr_state \in {"dropped", "crashed"} =>
          /\ FreedBlocks(arr) = EverAllocated
          /\ \A b \in EverAllocated : frees[b] = 1 /\ ~heap[b].allocated
    /\ it_state \in {"dropped", "crashed"} =>
          /\ FreedBlocks(it) = EverAllocated
          /\ \A b \in EverAllocated : frees[b] = 1 /\ ~heap[b].allocated

\* C13 witness: an iterator over two elements in three allocated segments (the
\* third emptied by pops) was dropped with its cursor at 1, and each of the
\* three blocks was freed once.
C13_Witness ==
    /\ it_state = "dropped"
    /\ it.allocated_segments = 3 /\ it.count = 2 /\ it.idx = 1
    /\ \A b \in Blocks : frees[b] = 1 /\ ~heap[b].allocated

\* The linear indices that have a slot in the allocated segments.
AllocatedIndices(a) ==
    0..(2^a.allocated_segments - 2)

\* C14: while the array is live, the slot of linear index i holds a
\* constructed element exactly when i < count; so a successful append writes
\* into a slot holding none, and a successful pop reads a constructed one.
C14_ConstructedIffBelowCount ==
    /\ [](arr_state = "live" =>
            \A i \in AllocatedIndices(arr) :
                (Load(heap, SlotOf(arr, i)) # Uninit) <=> (i < arr.count))
    /\ [][(nApp' = nApp + 1) =>
            /\ Load(heap, SlotOf(arr', arr.count)) = Uninit
            /\ last'.mem = SlotOf(arr', arr.count)]_vars
    /\ [][(nPop' = nPop + 1) =>
            /\ Load(heap, SlotOf(arr, arr.count - 1)) # Uninit
            /\ last'.mem = SlotOf(arr, arr.count - 1)
            /\ last'.ret # Uninit]_vars

\* C14 witness: after a pop from five elements the slot of index 4 holds
\* nothing, indices 0..3 are constructed, and index 4..6 are not.
C14_Witness ==
    /\ arr_state = "live"
    /\ last.op = "pop" /\ last.ret = 2
    /\ arr.count = 4 /\ arr.allocated_segments = 3
    /\ Load(heap, SlotOf(arr, 3)) = 1
    /\ Load(heap, SlotOf(arr, 4)) = Uninit

\* C15: while the array is live, segments[i] is non-null exactly for
\* i < allocated_segments, segment i is an allocated block of 2^i slots of its
\* own, count <= 2^allocated_segments - 1, and so every index below count
\* addresses a slot inside an allocated segment.
C15_GapFreePrefix ==
    arr_state = "live" =>
        /\ arr.allocated_segments \in 0..MaxSegs
        /\ \A i \in SegIdx :
              /\ (arr.segments[i] # NULL) <=> (i < arr.allocated_segments)
              /\ i < arr.allocated_segments =>
                    /\ arr.segments[i] \in Blocks
                    /\ heap[arr.segments[i]].allocated
                    /\ heap[arr.segments[i]].size = 2^i
                    /\ \A j \in SegIdx :
                          (j < i) => arr.segments[j] # arr.segments[i]
        /\ arr.count <= 2^arr.allocated_segments - 1
        /\ \A ix \in 0..(arr.count - 1) :
              /\ segment_index(ix) < arr.allocated_segments
              /\ AccessUB(heap, SlotOf(arr, ix)) = {}

\* C15 witness: four elements in three segments of 1, 2 and 4 slots.
C15_Witness ==
    /\ arr_state = "live"
    /\ arr.count = 4 /\ arr.allocated_segments = 3
    /\ last.op = "append" /\ last.err = ""
    /\ \A i \in SegIdx : heap[arr.segments[i]].size = 2^i

\* The allocation state of every block: what pop must not touch.
Allocation(hp) ==
    [b \in Blocks |-> <<hp[b].size, hp[b].allocated>>]

\* C16: pop leaves allocated_segments, the segment table and every block's
\* allocation as they were; allocated_segments never decreases while the
\* array is live; an append right after a successful pop writes the slot the
\* pop vacated, which holds nothing, and allocates nothing.
C16_PopNeverShrinks ==
    [][/\ pop =>
             /\ arr'.allocated_segments = arr.allocated_segments
             /\ arr'.segments = arr.segments
             /\ Allocation(heap') = Allocation(heap)
             /\ frees' = frees
       /\ (arr_state = "live" /\ arr_state' = "live") =>
             arr'.allocated_segments >= arr.allocated_segments
       /\ (nApp' = nApp + 1 /\ last.op = "pop" /\ last.ret # None) =>
             /\ last'.mem = last.mem
             /\ Load(heap, last.mem) = Uninit
             /\ Load(heap', last.mem) = last'.val
             /\ arr'.allocated_segments = arr.allocated_segments
             /\ arr'.segments = arr.segments
             /\ Allocation(heap') = Allocation(heap)]_vars

\* C16 witness: five appends, two pops down to three elements with segment 2
\* empty but still allocated, then an append into its first slot.
C16_Witness ==
    /\ arr_state = "live"
    /\ nApp = 6 /\ nPop = 2
    /\ last.op = "append" /\ last.err = ""
    /\ arr.count = 4 /\ arr.allocated_segments = 3
    /\ last.mem = <<arr.segments[2], 0>>

\* C17: for every linear index idx, s = segment_index(idx) is the floor of
\* log2(idx + 1) and slot = segment_slot(idx, s) = idx + 1 - 2^s lies in
\* 0..2^s - 1; different indices get different (s, slot) pairs; counting idx
\* upward from (0, 0) walks the slots 0..2^s - 1 of segment s in order and
\* then moves to slot 0 of segment s + 1.
C17_AddressingBijection ==
    /\ [](last.op = "locate" =>
          LET idx == last.idx
              s == last.mem[1]
              slot == last.mem[2]
          IN  /\ s >= 0
              /\ 2^s <= idx + 1 /\ idx + 1 < 2^(s + 1)
              /\ slot = idx + 1 - 2^s
              /\ 0 <= slot /\ slot < 2^s
              /\ (idx = 0) => (s = 0 /\ slot = 0)
              /\ \A j \in 0..MaxIdx :
                    (j # idx) => (Locate(j).mem # last.mem))
    /\ [][(last.op = "locate") =>
          /\ last'.idx = last.idx + 1
          /\ \/ /\ last'.mem[1] = last.mem[1]
                /\ last'.mem[2] = last.mem[2] + 1
             \/ /\ last.mem[2] = 2^last.mem[1] - 1
                /\ last'.mem[1] = last.mem[1] + 1
                /\ last'.mem[2] = 0]_vars

\* C17 witness: index 6 is the last slot of segment 2.
C17_Witness ==
    /\ last.op = "locate"
    /\ last.idx = 6
    /\ last.mem = <<2, 3>>

\* C18: an indexed write arr[i] = v with i < len makes arr[i] read v, leaves
\* what every other index below len reads, and leaves count,
\* allocated_segments, segment_usage (and the segment table) unchanged.
C18_IndexedWriteFrame ==
    [][LET i == last'.idx
           v == last'.val
       IN  (index_mut(i, v) /\ ~OutOfRange(arr, i)) =>
              /\ last'.err = ""
              /\ Load(heap', SlotOf(arr', i)) = v
              /\ \A j \in 0..(arr.count - 1) :
                    (j # i) =>
                       Load(heap', SlotOf(arr', j)) = Load(heap, SlotOf(arr, j))
              /\ arr'.count = arr.count
              /\ arr'.allocated_segments = arr.allocated_segments
              /\ arr'.segment_usage = arr.segment_usage
              /\ arr'.segments = arr.segments
              /\ Allocation(heap') = Allocation(heap)]_vars

\* C18 witness: index 1 of <<1, 1, 1>> overwritten with 2.
C18_Witness ==
    /\ arr_state = "live"
    /\ last.op = "index_mut" /\ last.err = ""
    /\ last.idx = 1 /\ last.val = 2
    /\ arr.count = 3
    /\ Contents(arr, heap) = <<1, 2, 1>>

Max(a, b) == IF a >= b THEN a ELSE b

\* The slots of segment i that hold a constructed element.
LiveInSegment(a, hp, i) ==
    {s \in 0..(2^i - 1) : Load(hp, <<a.segments[i], s>>) # Uninit}

\* C19: while the array is live, segment_usage[i] is the number of elements
\* held in segment i, which is min(2^i, max(0, count - (2^i - 1))); the usages
\* sum to count, and every segment below ceil(log2(count + 1)) has usage >= 1.
C19_UsageMatchesCount ==
    arr_state = "live" =>
        /\ \A i \in SegIdx :
              /\ arr.segment_usage[i]
                    = Min(2^i, Max(0, arr.count - (2^i - 1)))
              /\ arr.segment_usage[i]
                    = IF i < arr.allocated_segments
                      THEN Cardinality(LiveInSegment(arr, heap, i))
                      ELSE 0
              /\ (i < CeilLog2(arr.count + 1)) => arr.segment_usage[i] >= 1
        /\ SumSeq([k \in 1..MaxSegs |-> arr.segment_usage[k - 1]]) = arr.count

\* C19 witness: after a pop from four elements segment 2 is allocated and
\* empty, and segments 0 and 1 are full.
C19_Witness ==
    /\ arr_state = "live"
    /\ last.op = "pop" /\ last.ret # None
    /\ arr.count = 3 /\ arr.allocated_segments = 3
    /\ arr.segment_usage = [i \in SegIdx |-> IF i = 2 THEN 0 ELSE 2^i]

\* C20: allocated_segments never exceeds the size of the segment table
\* (MaxSegs here, 32 in the source); an append issued when every segment is
\* allocated and full (count = 2^MaxSegs - 1) fails fatally, writes nothing
\* (no slot, no table entry), and leaves count and allocated_segments as they
\* were.
C20_TableNeverOverrun ==
    /\ [](/\ arr.allocated_segments <= MaxSegs
          /\ it.allocated_segments <= MaxSegs
          /\ DOMAIN arr.segments = SegIdx
          /\ "out_of_bounds" \notin ub)
    /\ [][(arr.count = 2^MaxSegs - 1 /\ append(last'.val)) =>
             /\ last'.err \in {"TableFull", "AllocFailed"}
             /\ arr'.count = arr.count
             /\ arr'.allocated_segments = arr.allocated_segments
             /\ arr'.segments = arr.segments
             /\ arr'.segment_usage = arr.segment_usage
             /\ heap' = heap
             /\ nApp' = nApp]_vars

\* C20 witness: an append to a full table of MaxSegs segments has panicked and
\* the array is as it was.
C20_Witness ==
    /\ arr_state = "live"
    /\ last.op = "append" /\ last.err = "TableFull"
    /\ arr.count = 2^MaxSegs - 1
    /\ arr.allocated_segments = MaxSegs
    /\ Len(last.pre) = arr.count
    /\ Contents(arr, heap) = last.pre

====
